---------------------------- MODULE Spec2Model ----------------------------
(***************************************************************************)
(* Model of game/core/interaction_graph/distributor.py (class Distributor) *)
(* of NagaAgent: role generation and collaboration-permission assignment   *)
(* through one text-generation capability.                                 *)
(*                                                                         *)
(* A capability response is a pair (text, body).  text is the response     *)
(* as a sequence of tokens: the two fence markers, the two braces,         *)
(* whitespace, other prose, and two placeholders, BODY for the members     *)
(* written between the braces of a JSON object and VALUE for a JSON value  *)
(* that is not an object.  body is what those placeholders decode to.      *)
(* The string scans of the code (find, rfind, startswith, strip, slicing)  *)
(* are carried out on the token sequence; the marker FENCE_JSON is one     *)
(* token, so json_start + 7 of the code is json_start + 1 here.            *)
(***************************************************************************)
EXTENDS Integers, Sequences, FiniteSets, TLC

\* ------------------------------------------------------------------ bounds
\* longest roles array of a response
MaxRoles == 3
\* largest upper end (max) of expected_count_range
MaxCount == 2
\* most rejected candidates in one roles array
MaxRejected == 1
\* longest run of tokens before and after the JSON document of a response
MaxPad == 1
\* longest text of a value handed to _ensure_list on its own
MaxText == 2
\* longest list handed to _ensure_list on its own
MaxItems == 2
\* longest response text handed to the two decoders on its own
MaxTokens == 3
\* largest task.max_iterations
MaxIterations == 2

\* the largest max_phases given to run_full_flow_test
MaxPhasesArg == 7

\* ----------------------------------------------------------------- helpers
Min(S) == CHOOSE x \in S : \A y \in S : x <= y

Max(S) == CHOOSE x \in S : \A y \in S : x >= y

SeqsUpTo(S, n) == UNION {[1..k -> S] : k \in 0..n}

Ok(v) == [ok |-> TRUE, val |-> v, err |-> "none"]

Raise(e) == [ok |-> FALSE, val |-> <<>>, err |-> e]

\* ------------------------------------------------------------------ tokens
\* the seven characters that open a fenced JSON block: three backticks, json
FENCE_JSON == "fence_json"

\* three backticks
FENCE == "fence"

LBRACE == "{"

RBRACE == "}"

WS == " "

TXT == "txt"

BODY == "B"

VALUE == "V"

\* str.find(sub, start): the first position >= from holding one of toks,
\* 0 when there is none (-1 in Python).  A search for FENCE also matches the
\* first three characters of FENCE_JSON.
Find(s, toks, from) ==
    LET I == {i \in from..Len(s) : s[i] \in toks}
    IN IF I = {} THEN 0 ELSE Min(I)

\* str.rfind(sub): the last position holding tok, 0 when there is none.
RFind(s, tok) ==
    LET I == {i \in 1..Len(s) : s[i] = tok}
    IN IF I = {} THEN 0 ELSE Max(I)

\* str.strip(): leading and trailing whitespace removed.
Strip(s) ==
    LET I == {i \in 1..Len(s) : s[i] # WS}
    IN IF I = {} THEN <<>> ELSE SubSeq(s, Min(I), Max(I))

\* The text handed to json.loads by _parse_roles_from_response.
RolesJsonStr(response) ==
    LET json_start == Find(response, {FENCE_JSON}, 1)
        json_end == Find(response, {FENCE, FENCE_JSON}, json_start + 1)
        stripped == Strip(response)
    IN IF json_start # 0 /\ json_end # 0
       THEN Strip(SubSeq(response, json_start + 1, json_end - 1))
       ELSE IF stripped # <<>> /\ Head(stripped) = LBRACE
            THEN SubSeq(stripped, 1, RFind(stripped, RBRACE))
            ELSE stripped

\* a permission decoder whose fallback does not cut the text behind the
\* last closing brace
PermissionsJsonStrWithoutCut(response) ==
    LET json_start == Find(response, {FENCE_JSON}, 1)
        json_end == Find(response, {FENCE, FENCE_JSON}, json_start + 1)
    IN IF json_start # 0 /\ json_end # 0
       THEN Strip(SubSeq(response, json_start + 1, json_end - 1))
       ELSE Strip(response)

\* The text handed to json.loads by _parse_permissions_from_response.
PermissionsJsonStr(response) ==
    LET json_start == Find(response, {FENCE_JSON}, 1)
        json_end == Find(response, {FENCE, FENCE_JSON}, json_start + 1)
        stripped == Strip(response)
    IN IF json_start # 0 /\ json_end # 0
       THEN Strip(SubSeq(response, json_start + 1, json_end - 1))
       ELSE IF stripped # <<>> /\ Head(stripped) = LBRACE
            THEN SubSeq(stripped, 1, RFind(stripped, RBRACE))
            ELSE stripped

\* --------------------------------------------------------- decoded values
\* A text value is the sequence of its characters; WS is a whitespace one.
\* A responsibilities / skills value as decoded: a list of texts, one text,
\* or anything else (number, mapping, null).
ListVal(items) == [kind |-> "list", items |-> items, s |-> <<>>]

StrVal(s) == [kind |-> "str", items |-> <<>>, s |-> s]

OtherVal == [kind |-> "other", items |-> <<>>, s |-> <<>>]

\* A priority_level value as decoded: an integer, or a value int() rejects.
IntVal(n) == [kind |-> "int", n |-> n]

BadVal == [kind |-> "bad", n |-> 0]

\* The roles value of a decoded object: an array of candidates, or a value
\* that cannot be iterated (number, null).
RolesList(items) == [kind |-> "list", items |-> items]

RolesNumber == [kind |-> "number", items |-> <<>>]

\* A decoded JSON document.  keys is the set of x for which (x in data) is
\* true: the keys of an object, the elements of an array, the substrings of
\* a string; a number supports neither (in) nor subscripting.
Object(keys, roles, permissions) ==
    [kind |-> "object", keys |-> keys, roles |-> roles, permissions |-> permissions]

NonObject(kind, keys) ==
    [kind |-> kind, keys |-> keys, roles |-> RolesNumber, permissions |-> <<>>]

EmptyObject == Object({}, RolesNumber, <<>>)

NotWs(t) == t # WS

\* json.loads on the selected text: whitespace between tokens is
\* insignificant; one object, or one non-object value, decodes; anything
\* else (prose, a stray brace or fence, a cut-off object, the empty text,
\* extra data after the document) raises JSONDecodeError.
JsonLoads(json_str, body) ==
    LET w == SelectSeq(json_str, NotWs)
    IN IF w = <<LBRACE, BODY, RBRACE>> /\ body.kind = "object" THEN Ok(body)
       ELSE IF w = <<LBRACE, RBRACE>> THEN Ok(EmptyObject)
       ELSE IF w = <<VALUE>> /\ body.kind # "object" THEN Ok(body)
       ELSE Raise("RuntimeError_json")

\* (key in data) then data[key], as both parsers do after json.loads;
\* found is what a present key yields, absent what a missing key yields.
Lookup(data, key, found, absent) ==
    IF data.kind = "number" THEN Raise("TypeError")
    ELSE IF key \in data.keys
         THEN (IF data.kind = "object" THEN found ELSE Raise("TypeError"))
         ELSE absent

\* _parse_roles_from_response: the roles value, [] when the key is missing.
parse_roles_from_response(response) ==
    LET loaded == JsonLoads(RolesJsonStr(response.text), response.body)
    IN IF ~loaded.ok THEN loaded
       ELSE Lookup(loaded.val, "roles", Ok(loaded.val.roles), Ok(RolesList(<<>>)))

\* a permissions parser that answers a missing key with the empty mapping
parse_permissions_lenient(response, roles) ==
    LET loaded == JsonLoads(PermissionsJsonStr(response.text), response.body)
    IN IF ~loaded.ok THEN loaded
       ELSE Lookup(loaded.val, "permissions", Ok(loaded.val.permissions), Ok(<<>>))

\* a permissions parser that refuses a mapping naming a role it was not given
parse_permissions_strict(response, roles) ==
    LET loaded == JsonLoads(PermissionsJsonStr(response.text), response.body)
        known == {roles[i].name : i \in 1..Len(roles)}
        m == loaded.val.permissions
    IN IF ~loaded.ok THEN loaded
       ELSE Lookup(loaded.val, "permissions",
                   IF DOMAIN m \subseteq known /\ \A k \in DOMAIN m : m[k] \subseteq known
                   THEN Ok(m) ELSE Raise("RuntimeError_unknown_role"),
                   Raise("RuntimeError_missing_permissions"))

\* _parse_permissions_from_response: the permissions value as decoded.
parse_permissions_from_response(response, roles) ==
    LET loaded == JsonLoads(PermissionsJsonStr(response.text), response.body)
    IN IF ~loaded.ok THEN loaded
       ELSE Lookup(loaded.val, "permissions", Ok(loaded.val.permissions),
                   Raise("RuntimeError_missing_permissions"))

\* -------------------------------------------------------------- validation
required_fields == {"name", "role_type", "responsibilities", "skills", "output_requirements"}

DEFAULT_PRIORITY == 5

NonEmpty(s) == s # <<>>

\* a coercion that keeps the blank items of a list
ensure_list_without_filter(value) ==
    IF value.kind = "list"
    THEN [i \in 1..Len(value.items) |-> Strip(value.items[i])]
    ELSE IF value.kind = "str"
         THEN (IF Strip(value.s) # <<>> THEN <<Strip(value.s)>> ELSE <<>>)
         ELSE <<>>

\* _ensure_list
ensure_list(value) ==
    IF value.kind = "list"
    THEN SelectSeq([i \in 1..Len(value.items) |-> Strip(value.items[i])], NonEmpty)
    ELSE IF value.kind = "str"
         THEN (IF Strip(value.s) # <<>> THEN <<Strip(value.s)>> ELSE <<>>)
         ELSE <<>>

\* a priority_level that defaults to the lowest level
PriorityOfWithLowDefault(role_data) ==
    IF "priority_level" \in role_data.fields
    THEN (IF role_data.priority_level.kind = "int"
          THEN Ok(role_data.priority_level.n) ELSE Raise("ValueError"))
    ELSE Ok(1)

\* int(role_data.get('priority_level', 5))
PriorityOf(role_data) ==
    IF "priority_level" \in role_data.fields
    THEN (IF role_data.priority_level.kind = "int"
          THEN Ok(role_data.priority_level.n) ELSE Raise("ValueError"))
    ELSE Ok(DEFAULT_PRIORITY)

\* The GeneratedRole dataclass (game/core/models/data_models.py): it stores
\* the six fields it is given.
GeneratedRole(name, role_type, responsibilities, skills, output_requirements, priority_level) ==
    [name |-> name, role_type |-> role_type, responsibilities |-> responsibilities,
     skills |-> skills, output_requirements |-> output_requirements,
     priority_level |-> priority_level]

\* all(field in role_data for field in required_fields)
HasRequiredFields(role_data) == required_fields \subseteq role_data.fields

\* a validity test that forgot the skills
BasicValidityWithoutSkills(role) ==
    /\ role.name # <<>>
    /\ role.role_type # <<>>
    /\ role.responsibilities # <<>>

\* role.name and role.role_type and role.responsibilities and role.skills
BasicValidity(role) ==
    /\ role.name # <<>>
    /\ role.role_type # <<>>
    /\ role.responsibilities # <<>>
    /\ role.skills # <<>>

\* One turn of the loop of _validate_generated_roles: the role to append, or
\* a skip (a missing field, an exception while building the role, or a role
\* that fails the basic validity test).
ValidateOne(role_data) ==
    IF ~HasRequiredFields(role_data) THEN Raise("skip_missing_field")
    ELSE IF role_data.kind # "dict" THEN Raise("skip_TypeError")
    ELSE IF ~PriorityOf(role_data).ok THEN Raise("skip_ValueError")
    ELSE LET role == GeneratedRole(Strip(role_data.name), Strip(role_data.role_type),
                                   ensure_list(role_data.responsibilities),
                                   ensure_list(role_data.skills),
                                   Strip(role_data.output_requirements),
                                   PriorityOf(role_data).val)
         IN IF BasicValidity(role) THEN Ok(role) ELSE Raise("skip_invalid")

\* a loop that gives up at the first candidate it cannot accept
RECURSIVE ValidateLoopStoppingAtFailure(_, _, _)
ValidateLoopStoppingAtFailure(raw_roles, i, acc) ==
    IF i > Len(raw_roles) THEN acc
    ELSE LET r == ValidateOne(raw_roles[i])
         IN IF r.ok
            THEN ValidateLoopStoppingAtFailure(raw_roles, i + 1,
                                               Append(acc, [idx |-> i, role |-> r.val]))
            ELSE acc

\* The loop of _validate_generated_roles from candidate i on: acc gathers
\* the appended roles, each with the position idx of its candidate in the
\* response (idx is bookkeeping of the model, not a field of the role).
RECURSIVE ValidateLoop(_, _, _)
ValidateLoop(raw_roles, i, acc) ==
    IF i > Len(raw_roles) THEN acc
    ELSE LET r == ValidateOne(raw_roles[i])
         IN ValidateLoop(raw_roles, i + 1,
                         IF r.ok THEN Append(acc, [idx |-> i, role |-> r.val]) ELSE acc)

\* Where sorted(..., reverse=True) puts x among the already sorted s: behind
\* every entry whose key is at least its own (the sort is stable).
RECURSIVE InsertByPriority(_, _)
InsertByPriority(x, s) ==
    IF s = <<>> THEN <<x>>
    ELSE IF Head(s).role.priority_level >= x.role.priority_level
         THEN <<Head(s)>> \o InsertByPriority(x, Tail(s))
         ELSE <<x>> \o s

\* sorted(validated_roles, key=lambda x: x.priority_level, reverse=True)
RECURSIVE SortedByPriority(_)
SortedByPriority(s) ==
    IF s = <<>> THEN <<>>
    ELSE InsertByPriority(s[Len(s)], SortedByPriority(SubSeq(s, 1, Len(s) - 1)))

\* a truncation that keeps the first max_count roles of the response
TruncateInResponseOrder(validated, max_count) ==
    IF Len(validated) > max_count
    THEN SubSeq(validated, 1, max_count)
    ELSE validated

\* a truncation that sorts by priority whether or not it cuts
TruncateAlwaysSorting(validated, max_count) ==
    IF Len(validated) > max_count
    THEN SubSeq(SortedByPriority(validated), 1, max_count)
    ELSE SortedByPriority(validated)

\* if len(validated_roles) > max_count: sorted(...)[:max_count]
TruncateByPriority(validated, max_count) ==
    IF Len(validated) > max_count
    THEN SubSeq(SortedByPriority(validated), 1, max_count)
    ELSE validated

\* _validate_generated_roles; enumerate() of a value that is no list raises.
validate_generated_roles(raw_roles, max_count) ==
    IF raw_roles.kind # "list" THEN Raise("TypeError")
    ELSE Ok(TruncateByPriority(ValidateLoop(raw_roles.items, 1, <<>>), max_count))

\* a generate_roles that lost its test for the empty list
NeverEmptyResult(validated) == FALSE

\* if not validated_roles
IsEmptyResult(validated) == validated = <<>>

\* a generate_roles that answers a response it cannot parse with a default role
generate_roles_result_with_fallback(response, max_count) ==
    LET parsed == parse_roles_from_response(response)
        validated == validate_generated_roles(parsed.val, max_count)
        fallback == GeneratedRole(<<"a">>, <<"t">>, << <<"r">> >>, << <<"s">> >>, <<"o">>, DEFAULT_PRIORITY)
    IN IF ~parsed.ok THEN Ok(<< [idx |-> 1, role |-> fallback] >>)
       ELSE IF ~validated.ok THEN validated
       ELSE IF IsEmptyResult(validated.val) THEN Raise("RuntimeError_empty_result")
       ELSE validated

\* generate_roles from the response on: parse, validate, refuse an empty list.
generate_roles_result(response, max_count) ==
    LET parsed == parse_roles_from_response(response)
        validated == validate_generated_roles(parsed.val, max_count)
    IN IF ~parsed.ok THEN parsed
       ELSE IF ~validated.ok THEN validated
       ELSE IF IsEmptyResult(validated.val) THEN Raise("RuntimeError_empty_result")
       ELSE validated

\* ------------------------------------------------------------------ inputs
\* Candidate roles a response may list.  The value of a field that is not
\* in fields is never read.
Cand(fields, name, role_type, responsibilities, skills, priority_level) ==
    [kind |-> "dict", fields |-> fields, name |-> name, role_type |-> role_type,
     responsibilities |-> responsibilities, skills |-> skills,
     output_requirements |-> <<"o">>, priority_level |-> priority_level]

WithPriority == required_fields \cup {"priority_level"}

GoodList(c) == ListVal(<< <<c>> >>)

\* accepted candidates: no priority_level (and a blank list item), 0 (and a
\* scalar responsibilities text), 5 (and a padded name), 11
AcceptedCandidates ==
    { Cand(required_fields, <<"a">>, <<"t">>, ListVal(<< <<"r">>, <<WS>> >>), GoodList("s"), BadVal),
      Cand(WithPriority, <<"b">>, <<"t">>, StrVal(<<"r">>), GoodList("s"), IntVal(0)),
      Cand(WithPriority, <<WS, "c", WS>>, <<"t">>, GoodList("r"), GoodList("s"), IntVal(5)),
      Cand(WithPriority, <<"d">>, <<"t">>, GoodList("r"), GoodList("s"), IntVal(11)) }

\* rejected candidates: one required field missing; a priority_level int()
\* rejects; a blank name or role_type; responsibilities or skills that are
\* empty after coercion; a candidate that is no mapping (a list naming
\* every field)
RejectedCandidates ==
    { Cand(WithPriority \ {f}, <<"e">>, <<"t">>, GoodList("r"), GoodList("s"), IntVal(9)) :
        f \in required_fields }
    \cup
    { Cand(WithPriority, <<"f">>, <<"t">>, GoodList("r"), GoodList("s"), BadVal),
      Cand(WithPriority, <<WS>>, <<"t">>, GoodList("r"), GoodList("s"), IntVal(9)),
      Cand(WithPriority, <<"g">>, <<>>, GoodList("r"), GoodList("s"), IntVal(9)),
      Cand(WithPriority, <<"h">>, <<"t">>, ListVal(<< <<WS>> >>), GoodList("s"), IntVal(9)),
      Cand(WithPriority, <<"i">>, <<"t">>, GoodList("r"), OtherVal, IntVal(9)),
      [Cand(WithPriority, <<"j">>, <<"t">>, GoodList("r"), GoodList("s"), IntVal(9))
         EXCEPT !.kind = "nondict"] }

Candidates == AcceptedCandidates \cup RejectedCandidates

PadTokens == {TXT, WS, FENCE_JSON, FENCE, RBRACE}

Pads == SeqsUpTo(PadTokens, MaxPad)

ObjectText == <<LBRACE, BODY, RBRACE>>

\* an object, a cut-off object, the empty object, nothing
ObjectDocs == {ObjectText, <<LBRACE, BODY>>, <<LBRACE, RBRACE>>, <<>>}

Fenced(doc) == <<FENCE_JSON>> \o doc \o <<FENCE>>

Range(s) == {s[i] : i \in 1..Len(s)}

\* a response; its body matters only where the text has a placeholder
Response(text, body) ==
    [text |-> text,
     body |-> IF BODY \in Range(text) \/ VALUE \in Range(text) THEN body ELSE EmptyObject]

PaddedResponses(bodies) ==
    { Response(pre \o doc \o post, b) :
        pre \in Pads, doc \in ObjectDocs, post \in Pads, b \in bodies }

PlainResponses(bodies) ==
    { Response(IF b.kind = "object" THEN Fenced(ObjectText) ELSE Fenced(<<VALUE>>), b) :
        b \in bodies }
    \cup { Response(<<VALUE>>, b) : b \in {x \in bodies : x.kind # "object"} }

NonObjects(key) ==
    { NonObject("array", {}), NonObject("array", {key}),
      NonObject("string", {key}), NonObject("number", {}) }

RolesObject(items) == Object({"roles"}, RolesList(items), <<>>)

\* roles arrays: up to MaxRoles candidates, up to MaxRejected of them rejected
RoleArrays ==
    { items \in SeqsUpTo(Candidates, MaxRoles) :
        Cardinality({i \in 1..Len(items) : items[i] \in RejectedCandidates}) <= MaxRejected }

\* Responses to the role generation prompt.  One accepted candidate in
\* every padded text:
PaddedRoleResponses ==
    PaddedResponses({ RolesObject(<<c>>) : c \in {x \in AcceptedCandidates : x.name = <<"a">>} })

\* every roles array, fenced:
ArrayRoleResponses == PlainResponses({ RolesObject(items) : items \in RoleArrays })

\* an object without roles, an object whose roles is a number, and the
\* values that are no object, fenced or bare:
OddRoleResponses ==
    PlainResponses(NonObjects("roles") \cup {Object({"team"}, RolesNumber, <<>>),
                                            Object({"roles"}, RolesNumber, <<>>)})

\* names a permission mapping may use: two role names and a stranger
NameA == <<"a">>

NameB == <<"b">>

Stranger == <<"z">>

PermissionNames == {NameA, NameB, Stranger}

\* decoded permissions mappings: some keys, each with a set of targets
PermissionMaps == UNION { [K -> SUBSET PermissionNames] : K \in SUBSET PermissionNames }

PermissionsObject(m) == Object({"permissions"}, RolesNumber, m)

\* Responses to the permission assignment prompt.  One mapping in every
\* padded text:
PaddedPermissionResponses ==
    PaddedResponses({ PermissionsObject([k \in {NameA} |-> {NameB}]) })

\* every mapping, fenced:
MappingPermissionResponses ==
    PlainResponses({ PermissionsObject(m) : m \in PermissionMaps })

\* an object without permissions and the values that are no object:
OddPermissionResponses ==
    PlainResponses(NonObjects("permissions") \cup {Object({"roles"}, RolesNumber, <<>>)})

\* expected_count_range pairs (min, max).  min is unpacked and never read
\* again by the Distributor, so one min is enumerated per max: the range
\* that asks for exactly max roles.
CountRanges == { <<max, max>> : max \in 0..MaxCount }

RoleOf(name, priority_level) ==
    GeneratedRole(name, <<"t">>, << <<"r">> >>, << <<"s">> >>, <<"o">>, priority_level)

\* role lists handed to assign_collaboration_permissions
RoleLists ==
    { << RoleOf(NameA, 9) >>,
      << RoleOf(NameA, 5), RoleOf(NameB, 5) >>,
      << RoleOf(NameA, 5), RoleOf(NameB, 9) >> }

\* ------------------------------------------------------------------- state
VARIABLES
    naga_conversation,  \* "None" or "service": Distributor.naga_conversation
    op,                 \* the operation invoked last
    pc,                 \* "idle", "awaiting" (suspended in the capability call), "returned", "raised"
    min_count,          \* expected_count_range[0] of generate_roles
    max_count,          \* expected_count_range[1] of generate_roles
    roles_arg,          \* the roles argument of assign_collaboration_permissions
    llm_calls,          \* capability calls issued by the current invocation
    response,           \* the capability's response to the current invocation
    validated_roles,    \* the list generate_roles returned
    origin,             \* per returned role, the position of its candidate in the response
    permissions,        \* the mapping assign_collaboration_permissions returned
    error,              \* the exception the current invocation raised
    graph,              \* the interaction graph assembled from roles_arg and permissions
    call,               \* a helper applied on its own: its name and its argument
    call_result,        \* what that helper returned
    session,            \* the Session of start_game_session
    harness             \* one run of the gated run_full_flow_test and its logger

vars == <<naga_conversation, op, pc, min_count, max_count, roles_arg, llm_calls, response,
          validated_roles, origin, permissions, error, graph, call, call_result, session,
          harness>>

\* the state outside the Distributor and the graph assembly
outside_distributor == <<call, call_result, session, harness>>

\* the state of the Distributor and the graph assembly
distributor_state ==
    <<naga_conversation, op, pc, min_count, max_count, roles_arg, llm_calls, response,
      validated_roles, origin, permissions, error, graph>>

\* no helper applied on its own
NoCall == [fn |-> "none", value |-> OtherVal, text |-> <<>>]

NoResult == [list |-> <<>>, roles_json_str |-> <<>>, permissions_json_str |-> <<>>]

\* no final result selected
NoFinalResult ==
    [selected |-> FALSE, round_number |-> 0,
     actor_output |-> [agent_id |-> <<>>, iteration |-> 0, critical |-> 0, novelty |-> 0,
                       satisfaction |-> 0, generation_time |-> 0]]

\* no session started
NoSession ==
    [status |-> "none", error |-> "none", max_iterations |-> 0, rounds |-> <<>>,
     final_result |-> NoFinalResult]

\* max_phases of run_full_flow_test: None, or an integer
NoLimit == [given |-> FALSE, value |-> 0]

Limit(n) == [given |-> TRUE, value |-> n]

\* FullFlowTestLogger._initial_state, with the keys _finalize adds
NoTestData == [success |-> FALSE, errors |-> <<>>, phases |-> <<>>, termination_reason |-> "none"]

\* nothing returned by run_full_flow_test
NoRunResult == [success |-> FALSE, phases |-> <<>>, termination_reason |-> "none", error |-> FALSE]

\* run_full_flow_test not invoked
NoRun ==
    [status |-> "idle", arg |-> NoLimit, max_phases |-> NoLimit, phases |-> <<>>,
     executed |-> <<>>, naga_system |-> "None", finalize_calls |-> 0,
     test_data |-> NoTestData, result |-> NoRunResult]

NoResponse == Response(<<>>, EmptyObject)

NoGraph == [status |-> "none", agents |-> <<>>]

\* Distributor.__init__: the conversation is given or left None
Init ==
    /\ naga_conversation \in {"None", "service"}
    /\ op = "none"
    /\ pc = "idle"
    /\ min_count = 0
    /\ max_count = 0
    /\ roles_arg = <<>>
    /\ llm_calls = 0
    /\ response = NoResponse
    /\ validated_roles = <<>>
    /\ origin = <<>>
    /\ permissions = <<>>
    /\ error = "none"
    /\ graph = NoGraph
    /\ call = NoCall
    /\ call_result = NoResult
    /\ session = NoSession
    /\ harness = NoRun

\* an invocation starts when none is in progress
CanInvoke == pc \in {"idle", "returned", "raised"}

\* _call_llm_api up to its await: raise when no conversation is set, else
\* issue the one get_response call and suspend
call_llm_api ==
    IF naga_conversation = "None"
    THEN pc' = "raised" /\ error' = "RuntimeError_api_uninitialised" /\ llm_calls' = 0
    ELSE pc' = "awaiting" /\ error' = "none" /\ llm_calls' = 1

\* generate_roles(task, (min, max)) up to the capability call
generate_roles(min, max) ==
    /\ CanInvoke
    /\ op' = "generate_roles"
    /\ min_count' = min
    /\ max_count' = max
    /\ roles_arg' = <<>>
    /\ response' = NoResponse
    /\ validated_roles' = <<>>
    /\ origin' = <<>>
    /\ permissions' = <<>>
    /\ graph' = NoGraph
    /\ call_llm_api
    /\ UNCHANGED naga_conversation
    /\ UNCHANGED outside_distributor

\* generate_roles from the capability's response r to its return or raise
\* (the result is computed once)
generate_roles_finish(r) ==
    /\ response' = r
    /\ \E result \in {generate_roles_result(r, max_count)} :
         IF result.ok
         THEN /\ pc' = "returned"
              /\ validated_roles' = [k \in 1..Len(result.val) |-> result.val[k].role]
              /\ origin' = [k \in 1..Len(result.val) |-> result.val[k].idx]
              /\ error' = "none"
         ELSE /\ pc' = "raised"
              /\ validated_roles' = <<>>
              /\ origin' = <<>>
              /\ error' = result.err
    /\ UNCHANGED outside_distributor
    /\ UNCHANGED <<naga_conversation, op, min_count, max_count, roles_arg, llm_calls, permissions, graph>>

\* the capability answers a suspended generate_roles
generate_roles_resume ==
    /\ op = "generate_roles"
    /\ pc = "awaiting"
    /\ \/ \E r \in PaddedRoleResponses : generate_roles_finish(r)
       \/ \E r \in ArrayRoleResponses : generate_roles_finish(r)
       \/ \E r \in OddRoleResponses : generate_roles_finish(r)

\* a capability call that is issued again after it failed
capability_fails_with_retry ==
    /\ pc = "awaiting"
    /\ llm_calls' = llm_calls + 1
    /\ UNCHANGED outside_distributor
    /\ UNCHANGED <<naga_conversation, op, pc, min_count, max_count, roles_arg, response,
                   validated_roles, origin, permissions, error, graph>>

\* get_response raises: the exception passes through _call_llm_api and the
\* except/raise of the operation
capability_fails ==
    /\ pc = "awaiting"
    /\ pc' = "raised"
    /\ error' = "CapabilityError"
    /\ UNCHANGED outside_distributor
    /\ UNCHANGED <<naga_conversation, op, min_count, max_count, roles_arg, llm_calls, response,
                   validated_roles, origin, permissions, graph>>

\* assign_collaboration_permissions(roles) up to the capability call
assign_collaboration_permissions(roles) ==
    /\ CanInvoke
    /\ op' = "assign_collaboration_permissions"
    /\ roles_arg' = roles
    /\ min_count' = 0
    /\ max_count' = 0
    /\ response' = NoResponse
    /\ validated_roles' = <<>>
    /\ origin' = <<>>
    /\ permissions' = <<>>
    /\ graph' = NoGraph
    /\ call_llm_api
    /\ UNCHANGED naga_conversation
    /\ UNCHANGED outside_distributor

\* assign_collaboration_permissions from the response r to its return or
\* raise (the result is computed once)
assign_collaboration_permissions_finish(r) ==
    /\ response' = r
    /\ \E result \in {parse_permissions_from_response(r, roles_arg)} :
         IF result.ok
         THEN pc' = "returned" /\ permissions' = result.val /\ error' = "none"
         ELSE pc' = "raised" /\ permissions' = <<>> /\ error' = result.err
    /\ UNCHANGED outside_distributor
    /\ UNCHANGED <<naga_conversation, op, min_count, max_count, roles_arg, llm_calls,
                   validated_roles, origin, graph>>

\* the capability answers a suspended assign_collaboration_permissions
assign_collaboration_permissions_resume ==
    /\ op = "assign_collaboration_permissions"
    /\ pc = "awaiting"
    /\ \/ \E r \in PaddedPermissionResponses : assign_collaboration_permissions_finish(r)
       \/ \E r \in MappingPermissionResponses : assign_collaboration_permissions_finish(r)
       \/ \E r \in OddPermissionResponses : assign_collaboration_permissions_finish(r)

\* ---------------------------------------------------------- graph assembly
\* Graph assembly after the permissions are assigned (role_generator.py and
\* naga_game_system.py of the repository), as the design describes it.
RequesterId == <<"requester">>

RoleNames(roles) == {roles[i].name : i \in 1..Len(roles)}

\* a tie-break that takes the last role with the maximum priority_level
TopRoleLastOccurrence(roles) ==
    Max({i \in 1..Len(roles) :
           \A j \in 1..Len(roles) : roles[j].priority_level <= roles[i].priority_level})

\* the first role with the maximum priority_level
TopRole(roles) ==
    Min({i \in 1..Len(roles) :
           \A j \in 1..Len(roles) : roles[j].priority_level <= roles[i].priority_level})

\* the targets the mapping gives a role, filtered to the generated names
FilteredTargets(roles, mapping, name) ==
    IF name \in DOMAIN mapping THEN mapping[name] \cap RoleNames(roles) ELSE {}

\* the requester, linked both ways with the top role, then one agent per role
AssembleAgents(roles, mapping) ==
    << [agent_id |-> RequesterId, is_requester |-> TRUE,
        connection_permissions |-> {roles[TopRole(roles)].name}] >>
    \o [i \in 1..Len(roles) |->
          [agent_id |-> roles[i].name, is_requester |-> FALSE,
           connection_permissions |->
               FilteredTargets(roles, mapping, roles[i].name)
               \cup (IF i = TopRole(roles) THEN {RequesterId} ELSE {})]]

\* agent generation (generate_agents / generate_agents_only): the requester
\* plus one agent per generated role, before any permission is assigned
generate_agents_only(roles) ==
    << [agent_id |-> RequesterId, is_requester |-> TRUE, connection_permissions |-> {}] >>
    \o [i \in 1..Len(roles) |->
          [agent_id |-> roles[i].name, is_requester |-> FALSE, connection_permissions |-> {}]]

\* the agent ids reached from the ids in seen along connection_permissions
RECURSIVE ReachableFrom(_, _)
ReachableFrom(agents, seen) ==
    LET next == seen \cup UNION { agents[i].connection_permissions :
                                    i \in {k \in 1..Len(agents) : agents[k].agent_id \in seen} }
    IN IF next = seen THEN seen ELSE ReachableFrom(agents, next)

\* an assembly that skips the reachability check
build_interaction_graph_unchecked(roles, mapping) ==
    [status |-> "built", agents |-> AssembleAgents(roles, mapping)]

\* the assembled graph, or GraphInvariantError when an agent is cut off
build_interaction_graph(roles, mapping) ==
    LET agents == AssembleAgents(roles, mapping)
    IN IF \A i \in 1..Len(agents) : agents[i].agent_id \in ReachableFrom(agents, {RequesterId})
       THEN [status |-> "built", agents |-> agents]
       ELSE [status |-> "GraphInvariantError", agents |-> <<>>]

\* graph assembly from the roles and the permissions just assigned
assemble_graph ==
    /\ op = "assign_collaboration_permissions"
    /\ pc = "returned"
    /\ graph.status = "none"
    /\ graph' = build_interaction_graph(roles_arg, permissions)
    /\ UNCHANGED outside_distributor
    /\ UNCHANGED <<naga_conversation, op, pc, min_count, max_count, roles_arg, llm_calls, response,
                   validated_roles, origin, permissions, error>>

\* ----------------------------------------------------------- specification
Next ==
    \/ \E range \in CountRanges : generate_roles(range[1], range[2])
    \/ generate_roles_resume
    \/ \E roles \in RoleLists : assign_collaboration_permissions(roles)
    \/ assign_collaboration_permissions_resume
    \/ capability_fails
    \/ assemble_graph

Spec == Init /\ [][Next]_vars

\* ------------------------------------------------- helpers on their own
\* _ensure_list and the text selection of the two decoders, applied to
\* every argument up to a size.
\* texts of a responsibilities / skills value: letters and whitespace
Texts == SeqsUpTo({WS, "r"}, MaxText)

\* values that are neither a list nor text: a number, a mapping, null
ScalarValues == { [OtherVal EXCEPT !.kind = k] : k \in {"number", "mapping", "null"} }

\* the arguments of _ensure_list
CoercionInputs ==
    { StrVal(t) : t \in Texts } \cup ScalarValues
    \cup { ListVal(items) : items \in SeqsUpTo(Texts, MaxItems) }

AllTokens == {FENCE_JSON, FENCE, LBRACE, RBRACE, WS, TXT, BODY, VALUE}

\* the response texts
ResponseTexts == SeqsUpTo(AllTokens, MaxTokens)

\* _ensure_list(value)
apply_ensure_list ==
    /\ call.fn = "none"
    /\ \E value \in CoercionInputs :
         /\ call' = [fn |-> "ensure_list", value |-> value, text |-> <<>>]
         /\ call_result' = [NoResult EXCEPT !.list = ensure_list(value)]
    /\ UNCHANGED <<distributor_state, session, harness>>

\* the text selection of both decoders on one response text
apply_json_str ==
    /\ call.fn = "none"
    /\ \E text \in ResponseTexts :
         /\ call' = [fn |-> "json_str", value |-> OtherVal, text |-> text]
         /\ call_result' = [NoResult EXCEPT !.roles_json_str = RolesJsonStr(text),
                                            !.permissions_json_str = PermissionsJsonStr(text)]
    /\ UNCHANGED <<distributor_state, session, harness>>

HelperNext ==
    \/ apply_ensure_list
    \/ apply_json_str

HelperSpec == Init /\ [][HelperNext]_vars

\* ------------------------------------------------------ self-play session
\* start_game_session (game/core/self_game/game_engine.py of the
\* repository), as the design describes the round engine.  The scores the
\* critics and the novelty checker give an output are inputs of the round.
\* the agents that act in every round
SessionAgents == {NameA, NameB}

\* (critical, novelty, satisfaction) of an output: one dominated by all,
\* two that do not dominate each other, one dominating all
ScoreTriples == { <<1, 1, 1>>, <<1, 2, 1>>, <<2, 1, 1>>, <<2, 2, 2>> }

\* what GENERATE and the scoring make of one agent: no output, or an
\* output with its scores
Outcomes ==
    { [ok |-> FALSE, scores |-> <<0, 0, 0>>] } \cup { [ok |-> TRUE, scores |-> t] : t \in ScoreTriples }

\* the agents answer in a fixed order, the first the fastest
GenerationTime(agent_id) == IF agent_id = NameA THEN 1 ELSE 2

ActorOutput(agent_id, iteration, scores) ==
    [agent_id |-> agent_id, iteration |-> iteration, critical |-> scores[1],
     novelty |-> scores[2], satisfaction |-> scores[3],
     generation_time |-> GenerationTime(agent_id)]

\* p is at least as good as o on the three objectives and better on one
Dominates(p, o) ==
    /\ p.critical >= o.critical /\ p.novelty >= o.novelty /\ p.satisfaction >= o.satisfaction
    /\ (p.critical > o.critical \/ p.novelty > o.novelty \/ p.satisfaction > o.satisfaction)

\* a front that keeps every output of the round
ParetoFrontOfAll(outputs) == outputs

\* AGGREGATE: the outputs no other output of the round dominates
ParetoFront(outputs) == {o \in outputs : ~\E p \in outputs : Dominates(p, o)}

\* a decision that never looks at max_iterations
DecideWithoutLimit(round_number, max_iterations, converged, front, outputs) ==
    IF outputs = {} THEN "terminate"
    ELSE IF converged /\ Cardinality(front) = 1 THEN "terminate"
    ELSE "continue"

\* DECIDE: terminate at max_iterations, on convergence with a front of one
\* candidate, and after a round in which every agent failed
Decide(round_number, max_iterations, converged, front, outputs) ==
    IF round_number >= max_iterations THEN "terminate"
    ELSE IF outputs = {} THEN "terminate"
    ELSE IF converged /\ Cardinality(front) = 1 THEN "terminate"
    ELSE "continue"

\* o is preferred to p: higher critical score, then higher satisfaction,
\* then lower generation_time
Preferred(o, p) ==
    \/ o.critical > p.critical
    \/ o.critical = p.critical /\ o.satisfaction > p.satisfaction
    \/ /\ o.critical = p.critical /\ o.satisfaction = p.satisfaction
       /\ o.generation_time < p.generation_time

Best(outputs) == CHOOSE o \in outputs : \A p \in outputs \ {o} : Preferred(o, p)

\* a selection that makes up an output when no round has one
SelectFinalResultWithPlaceholder(rounds) ==
    LET survived == {i \in 1..Len(rounds) : rounds[i].actor_outputs # {}}
    IN IF survived = {}
       THEN [selected |-> TRUE, round_number |-> Len(rounds),
             actor_output |-> ActorOutput(NameA, Len(rounds), <<0, 0, 0>>)]
       ELSE [selected |-> TRUE, round_number |-> Max(survived),
             actor_output |-> Best(rounds[Max(survived)].actor_outputs)]

\* final result selection: the best of the last round's front; when the
\* last round has no output, the best output of the latest round that has
\* one; nothing when no round has one
SelectFinalResult(rounds) ==
    LET survived == {i \in 1..Len(rounds) : rounds[i].actor_outputs # {}}
    IN IF survived = {} THEN NoFinalResult
       ELSE IF Max(survived) = Len(rounds)
            THEN [selected |-> TRUE, round_number |-> Len(rounds),
                  actor_output |-> Best(rounds[Len(rounds)].pareto_front)]
            ELSE [selected |-> TRUE, round_number |-> Max(survived),
                  actor_output |-> Best(rounds[Max(survived)].actor_outputs)]

\* termination: a selected result, or RoundExecutionError when there is none
Terminate(sess) ==
    LET final == SelectFinalResult(sess.rounds)
    IN IF final.selected
       THEN [sess EXCEPT !.status = "completed", !.final_result = final]
       ELSE [sess EXCEPT !.status = "failed", !.error = "RoundExecutionError"]

\* one round, GENERATE to DECIDE, appended to the session
RunRound(sess, outcome, converged) ==
    LET n == Len(sess.rounds) + 1
        outputs == { ActorOutput(a, n, outcome[a].scores) : a \in {x \in SessionAgents : outcome[x].ok} }
        front == ParetoFront(outputs)
        decision == Decide(n, sess.max_iterations, converged, front, outputs)
        record == [round_number |-> n, failed |-> (outputs = {}), decision |-> decision,
                   actor_outputs |-> outputs, pareto_front |-> front]
        appended == [sess EXCEPT !.rounds = Append(sess.rounds, record)]
    IN IF decision = "continue" THEN appended ELSE Terminate(appended)

\* start_game_session(task, agents, context) up to its first round
start_game_session(max_iterations) ==
    /\ session.status = "none"
    /\ session' = [NoSession EXCEPT !.status = "running", !.max_iterations = max_iterations]
    /\ UNCHANGED <<distributor_state, call, call_result, harness>>

\* the next round of the running session
play_round ==
    /\ session.status = "running"
    /\ \E outcome \in [SessionAgents -> Outcomes], converged \in BOOLEAN :
         session' = RunRound(session, outcome, converged)
    /\ UNCHANGED <<distributor_state, call, call_result, harness>>

SessionNext ==
    \/ \E max_iterations \in 1..MaxIterations : start_game_session(max_iterations)
    \/ play_round

SessionSpec == Init /\ [][SessionNext]_vars

\* ----------------------------------------------------- gated full flow
\* run_full_flow_test of full_test_fix.py: six phases in a fixed order, a
\* gate after each of the first five, one exception handler around all.
\* the phases in the order run_full_flow_test calls them
PhaseOrder == <<"setup", "task", "agents", "graph", "response", "self_game">>

\* the phases that call _require_system
NeedsSystem == {"agents", "graph", "response", "self_game"}

\* the max_phases arguments tried
PhaseLimits == {NoLimit} \cup { Limit(n) : n \in (-1)..MaxPhasesArg }

\* how the body of a phase ends: it returns its PhaseResult, or it raises an
\* Exception (the RuntimeError of _phase_generate_agents, an error of the
\* system it calls), the class the handler catches
PhaseOutcomes == {"returns", "raises"}

\* max_phases <= 0 is no limit
NormalizeLimit(max_phases) ==
    IF max_phases.given /\ max_phases.value <= 0 THEN NoLimit ELSE max_phases

\* FullFlowTestLogger.log_error(error, context)
log_error(h, context) == [h EXCEPT !.test_data.errors = Append(@, context)]

\* FullFlowTestLogger.finalize_test(success); finalize_calls counts the calls
finalize_test(h, success) ==
    [h EXCEPT !.test_data.success = success, !.finalize_calls = @ + 1]

\* _finalize(logger, phases, success, reason, extra); with_error: extra
\* holds the key "error"
_finalize(h, success, reason, with_error) ==
    LET named == [h EXCEPT !.test_data.phases = h.phases,
                           !.test_data.termination_reason = reason]
        finalized == finalize_test(named, success)
    IN [finalized EXCEPT
          !.status = "returned",
          !.result = [success |-> success, phases |-> h.phases,
                      termination_reason |-> reason, error |-> with_error]]

\* the gate after a phase: max_phases is not None and len(phases) >= max_phases
GateReachedLate(h) == h.max_phases.given /\ Len(h.phases) > h.max_phases.value

GateReached(h) == h.max_phases.given /\ Len(h.phases) >= h.max_phases.value

\* the handler of run_full_flow_test
on_exception_finalizing_twice(h) ==
    _finalize(finalize_test(log_error(h, "full_flow"), FALSE), FALSE, "completed", TRUE)

on_exception(h) == _finalize(log_error(h, "full_flow"), FALSE, "completed", TRUE)

\* _require_system(logger) raises when setup has not stored the system
RequireSystemRaises(h) == h.naga_system = "None"

\* one phase and what run_full_flow_test does after it: the phase is
\* entered; when it raises the handler runs; when it returns its result is
\* appended and the gate (after self_game: the completion) is evaluated
RunPhase(h, name, outcome) ==
    LET entered == [h EXCEPT !.executed = Append(@, name)]
        raises == \/ name \in NeedsSystem /\ RequireSystemRaises(h)
                  \/ outcome = "raises"
        appended == [entered EXCEPT
                       !.phases = Append(@, name),
                       !.naga_system = IF name = "setup" THEN "NagaGameSystem" ELSE @]
    IN IF raises THEN on_exception(entered)
       ELSE IF name = "self_game" THEN _finalize(appended, TRUE, "completed", FALSE)
       ELSE IF GateReached(appended) THEN _finalize(appended, TRUE, "phase_limit", FALSE)
       ELSE appended

\* the phase at position i of the order is the next to run
AtPhase(i) == harness.status = "running" /\ Len(harness.phases) = i - 1

\* run_full_flow_test(user_question, max_phases) up to the first phase
run_full_flow_test(max_phases) ==
    /\ harness.status = "idle"
    /\ harness' = [NoRun EXCEPT !.status = "running", !.arg = max_phases,
                                !.max_phases = NormalizeLimit(max_phases)]
    /\ UNCHANGED <<distributor_state, call, call_result, session>>

_phase_setup ==
    /\ AtPhase(1)
    /\ \E outcome \in PhaseOutcomes : harness' = RunPhase(harness, "setup", outcome)
    /\ UNCHANGED <<distributor_state, call, call_result, session>>

_phase_prepare_task ==
    /\ AtPhase(2)
    /\ \E outcome \in PhaseOutcomes : harness' = RunPhase(harness, "task", outcome)
    /\ UNCHANGED <<distributor_state, call, call_result, session>>

_phase_generate_agents ==
    /\ AtPhase(3)
    /\ \E outcome \in PhaseOutcomes : harness' = RunPhase(harness, "agents", outcome)
    /\ UNCHANGED <<distributor_state, call, call_result, session>>

_phase_build_graph ==
    /\ AtPhase(4)
    /\ \E outcome \in PhaseOutcomes : harness' = RunPhase(harness, "graph", outcome)
    /\ UNCHANGED <<distributor_state, call, call_result, session>>

_phase_process_request ==
    /\ AtPhase(5)
    /\ \E outcome \in PhaseOutcomes : harness' = RunPhase(harness, "response", outcome)
    /\ UNCHANGED <<distributor_state, call, call_result, session>>

_phase_self_game ==
    /\ AtPhase(6)
    /\ \E outcome \in PhaseOutcomes : harness' = RunPhase(harness, "self_game", outcome)
    /\ UNCHANGED <<distributor_state, call, call_result, session>>

HarnessNext ==
    \/ \E max_phases \in PhaseLimits : run_full_flow_test(max_phases)
    \/ _phase_setup
    \/ _phase_prepare_task
    \/ _phase_generate_agents
    \/ _phase_build_graph
    \/ _phase_process_request
    \/ _phase_self_game

HarnessSpec == Init /\ [][HarnessNext]_vars

\* ------------------------------------------------------------------ claims
\* the current invocation is over
Finished == pc \in {"returned", "raised"}

\* the current invocation is over and the capability answered it
Answered == Finished /\ llm_calls = 1 /\ error # "CapabilityError"

RolesAnswered == op = "generate_roles" /\ Answered

PermissionsAnswered == op = "assign_collaboration_permissions" /\ Answered

\* what json.loads made of the response to generate_roles
RolesLoaded == JsonLoads(RolesJsonStr(response.text), response.body)

\* what json.loads made of the response to assign_collaboration_permissions
PermissionsLoaded == JsonLoads(PermissionsJsonStr(response.text), response.body)

\* the response decoded to an object with a roles array
HasRolesArray ==
    /\ RolesLoaded.ok
    /\ RolesLoaded.val.kind = "object"
    /\ "roles" \in RolesLoaded.val.keys
    /\ RolesLoaded.val.roles.kind = "list"

\* the candidates of that array
Listed == RolesLoaded.val.roles.items

\* the candidates that pass validation, before any truncation
Survivors == ValidateLoop(Listed, 1, <<>>)

\* C1: generate_roles never returns an empty role list; when zero roles
\* survive validation (an empty roles array, every candidate rejected, or
\* max = 0) the call ends in an error.
C1_NeverReturnsEmpty ==
    /\ (op = "generate_roles" /\ pc = "returned") => validated_roles # <<>>
    /\ (RolesAnswered /\ HasRolesArray /\ (Survivors = <<>> \/ max_count = 0))
          => (pc = "raised" /\ validated_roles = <<>>)

\* C1 witness: every candidate of a non-empty array was rejected, max >= 1,
\* and the call raised.
C1_Witness ==
    /\ RolesAnswered /\ HasRolesArray
    /\ Listed # <<>> /\ Survivors = <<>> /\ max_count >= 1
    /\ pc = "raised" /\ error = "RuntimeError_empty_result"

\* C2: when the JSON of the response cannot be decoded, or the decoded value
\* is no mapping or has no roles array, generate_roles fails and returns no
\* role set.
C2_NoFallbackRoles ==
    (RolesAnswered /\ ~HasRolesArray) => (pc = "raised" /\ validated_roles = <<>>)

\* C2 witness: a fenced block that is malformed JSON, and the call raised.
C2_Witness ==
    /\ RolesAnswered
    /\ response.text = Fenced(<<LBRACE, BODY>>)
    /\ ~RolesLoaded.ok
    /\ pc = "raised" /\ error = "RuntimeError_json"

\* C3: when the response cannot be decoded as JSON or the decoded object has
\* no permissions key, assign_collaboration_permissions fails and returns no
\* mapping.
C3_NoFallbackPermissions ==
    (PermissionsAnswered /\ (~PermissionsLoaded.ok \/ "permissions" \notin PermissionsLoaded.val.keys))
       => (pc = "raised" /\ permissions = <<>>)

\* C3 witness: a decoded object without the permissions key, and the call
\* raised.
C3_Witness ==
    /\ PermissionsAnswered
    /\ PermissionsLoaded.ok /\ PermissionsLoaded.val.kind = "object"
    /\ "permissions" \notin PermissionsLoaded.val.keys
    /\ pc = "raised" /\ error = "RuntimeError_missing_permissions"

\* C4 as claimed: every finished invocation of generate_roles or
\* assign_collaboration_permissions issued exactly one capability call.
C4_ExactlyOneCall == Finished => llm_calls = 1

\* C4 as amended: an invocation issues at most one capability call, never a
\* second one; a finished invocation issued exactly one when a conversation
\* is set, and none, ending in an error, when none is set.
C4_AtMostOneCall ==
    /\ llm_calls <= 1
    /\ (Finished /\ naga_conversation = "service") => llm_calls = 1
    /\ (Finished /\ naga_conversation = "None") => (llm_calls = 0 /\ pc = "raised")

\* C4 witness: the one call failed and the operation raised with no second
\* call.
C4_Witness == pc = "raised" /\ error = "CapabilityError" /\ llm_calls = 1

RolesReturned == op = "generate_roles" /\ pc = "returned"

\* the positions of the candidates whose roles were returned
Origins == {origin[k] : k \in 1..Len(origin)}

\* C5: every returned role came from a candidate that had all five fields
\* name, role_type, responsibilities, skills and output_requirements, and
\* has non-empty responsibilities and skills after coercion; a candidate
\* that misses one of the five fields, or whose responsibilities or skills
\* are empty after coercion, is never in the result.
C5_ReturnedRolesAreComplete ==
    RolesReturned => \A listed \in {Listed} :
      /\ \A k \in 1..Len(validated_roles) :
           /\ origin[k] \in 1..Len(listed)
           /\ {"name", "role_type", "responsibilities", "skills", "output_requirements"}
                 \subseteq listed[origin[k]].fields
           /\ validated_roles[k].responsibilities = ensure_list(listed[origin[k]].responsibilities)
           /\ validated_roles[k].skills = ensure_list(listed[origin[k]].skills)
           /\ validated_roles[k].responsibilities # <<>>
           /\ validated_roles[k].skills # <<>>
      /\ \A i \in 1..Len(listed) :
           (\/ \E f \in {"name", "role_type", "responsibilities", "skills", "output_requirements"} :
                  f \notin listed[i].fields
            \/ ensure_list(listed[i].responsibilities) = <<>>
            \/ ensure_list(listed[i].skills) = <<>>)
           => i \notin Origins

\* C5 witness: a call returned roles from an array that also listed a
\* candidate whose skills are empty after coercion.
C5_Witness ==
    /\ RolesReturned
    /\ \E i \in 1..Len(Listed) :
         /\ required_fields \subseteq Listed[i].fields
         /\ ensure_list(Listed[i].skills) = <<>>
         /\ i \notin Origins

\* the priority a candidate competes with: its priority_level, 5 without one
CompetesAs(c) == IF "priority_level" \in c.fields THEN c.priority_level.n ELSE 5

\* the positions of the candidates that survive validation
SurvivorSet == {Survivors[k].idx : k \in 1..Len(Survivors)}

\* candidate j of listed beats candidate i: a higher priority, or the same
\* and earlier
BeatsIn(listed, j, i) ==
    \/ CompetesAs(listed[j]) > CompetesAs(listed[i])
    \/ CompetesAs(listed[j]) = CompetesAs(listed[i]) /\ j < i

\* how many of the candidates at the positions sset beat candidate i
RankIn(listed, sset, i) == Cardinality({j \in sset : BeatsIn(listed, j, i)})

\* the positions of the entries of a validated list
Positions(entries) == {entries[k].idx : k \in 1..Len(entries)}

Beats(j, i) == BeatsIn(Listed, j, i)

\* how many survivors beat candidate i
Rank(i) == RankIn(Listed, SurvivorSet, i)

\* what _validate_generated_roles makes of the listed candidates
Validated == validate_generated_roles(RolesLoaded.val.roles, max_count).val

\* C6: when more than max roles survive validation, the result is exactly
\* max roles: those with the highest priority_level, in descending
\* priority_level, roles of equal priority kept (and selected at the
\* cut-off) in their response order.
C6_TruncationKeepsTopByPriority ==
    (RolesAnswered /\ HasRolesArray) =>
      \A listed \in {Listed} : \A surv \in {ValidateLoop(listed, 1, <<>>)} :
        Len(surv) > max_count =>
          \A validated \in {Validated} :
            /\ Len(validated) = max_count
            /\ \A k \in 1..Len(validated) :
                 RankIn(listed, Positions(surv), validated[k].idx) = k - 1
            /\ \A k \in 1..(Len(validated) - 1) :
                 \/ validated[k].role.priority_level > validated[k + 1].role.priority_level
                 \/ /\ validated[k].role.priority_level = validated[k + 1].role.priority_level
                    /\ validated[k].idx < validated[k + 1].idx
            /\ pc = "returned" =>
                 /\ validated_roles = [k \in 1..Len(validated) |-> validated[k].role]
                 /\ origin = [k \in 1..Len(validated) |-> validated[k].idx]

\* C6 witness: three roles survived with max = 2, two of them with equal
\* priority at the cut-off, and the earlier one was returned.
C6_Witness ==
    /\ RolesReturned /\ HasRolesArray
    /\ Len(Survivors) = 3 /\ max_count = 2
    /\ \E i, j \in SurvivorSet :
         /\ i < j
         /\ CompetesAs(Listed[i]) = CompetesAs(Listed[j])
         /\ i \in Origins /\ j \notin Origins

\* C7: a candidate without a priority_level field is accepted with
\* priority_level 5 and competes in the truncation as a priority-5 role.
C7_DefaultPriorityIsFive ==
    (RolesAnswered /\ HasRolesArray) =>
      \A listed \in {Listed} : \A surv \in {ValidateLoop(listed, 1, <<>>)} :
        \A i \in 1..Len(listed) :
          ("priority_level" \notin listed[i].fields /\ i \in Positions(surv)) =>
            /\ \E k \in 1..Len(surv) :
                 surv[k].idx = i /\ surv[k].role.priority_level = 5
            /\ pc = "returned" =>
                 /\ \A k \in 1..Len(origin) : origin[k] = i => validated_roles[k].priority_level = 5
                 /\ Len(surv) <= max_count => i \in Origins
                 /\ Len(surv) > max_count =>
                      (i \in Origins <=> RankIn(listed, Positions(surv), i) < max_count)

\* C7 witness: a candidate without priority_level was returned with 5 from
\* a truncated result, ahead of a priority-0 role and behind a priority-11
\* one.
C7_Witness ==
    /\ RolesReturned /\ HasRolesArray
    /\ Len(Survivors) > max_count
    /\ \E k \in 1..Len(origin) :
         /\ "priority_level" \notin Listed[origin[k]].fields
         /\ validated_roles[k].priority_level = 5
         /\ k > 1
    /\ \E j \in SurvivorSet : j \notin Origins /\ CompetesAs(Listed[j]) = 0

\* C8 as claimed: every returned role has a priority_level between 1 and 10.
C8_PriorityInRange ==
    RolesReturned => \A k \in 1..Len(validated_roles) : validated_roles[k].priority_level \in 1..10

\* the text is one JSON object with nothing but prose and whitespace
\* before and after it, and no fence
ProseAroundObject(text) ==
    \E i \in 1..(Len(text) - 2) :
       /\ SubSeq(text, i, i + 2) = ObjectText
       /\ \A j \in (1..Len(text)) \ (i..(i + 2)) : text[j] \in {TXT, WS}

\* C9 as claimed: for a response without a fenced block, a valid JSON
\* object with a roles array is decoded and its roles extracted also when
\* other text precedes or follows the object.
C9_FallbackFindsObject ==
    (/\ RolesAnswered
     /\ ProseAroundObject(response.text)
     /\ response.body.kind = "object"
     /\ "roles" \in response.body.keys
     /\ response.body.roles.kind = "list")
    => /\ error # "RuntimeError_json"
       /\ HasRolesArray
       /\ Listed = response.body.roles.items

\* the mapping without its unknown keys and targets
KnownPart(roles, mapping) ==
    [k \in DOMAIN mapping \cap RoleNames(roles) |-> mapping[k] \cap RoleNames(roles)]

C11_AtLeastMinPlusOneAgents ==
    RolesReturned =>
      /\ Len(generate_agents_only(validated_roles)) = Len(validated_roles) + 1
      /\ Len(generate_agents_only(validated_roles)) >= min_count + 1

\* the ids of the agents
AgentIds(agents) == {agents[a].agent_id : a \in 1..Len(agents)}

\* S holds the requester and every agent an agent of S may address
ClosedFromRequester(agents, S) ==
    /\ RequesterId \in S
    /\ \A a \in 1..Len(agents) :
         agents[a].agent_id \in S =>
           (agents[a].connection_permissions \cap AgentIds(agents)) \subseteq S

\* every agent is reachable from the requester: no set closed under the
\* edges and holding the requester leaves an agent out
AllReachable(agents) ==
    \A S \in SUBSET AgentIds(agents) :
       ClosedFromRequester(agents, S) => S = AgentIds(agents)

\* C12: a graph returned by graph assembly has exactly one requester and
\* every other agent is reachable from it along connection_permissions;
\* when some agent is not reachable the assembly fails and returns no
\* graph, not even a partial one.
C12_OneRequesterAllReachable ==
    /\ graph.status = "built" =>
         /\ Cardinality({a \in 1..Len(graph.agents) : graph.agents[a].is_requester}) = 1
         /\ graph.agents[1].agent_id = RequesterId /\ graph.agents[1].is_requester
         /\ Len(graph.agents) = Len(roles_arg) + 1
         /\ AllReachable(graph.agents)
    /\ graph.status = "GraphInvariantError" =>
         /\ graph.agents = <<>>
         /\ ~AllReachable(AssembleAgents(roles_arg, permissions))
    /\ graph.status # "none" =>
         (graph.status = "built" <=> AllReachable(AssembleAgents(roles_arg, permissions)))

\* C12 witness: a graph of the requester and two roles was returned, the
\* second role reached only through the first.
C12_Witness ==
    /\ graph.status = "built"
    /\ Len(graph.agents) = 3
    /\ graph.agents[1].connection_permissions = {NameA}
    /\ NameB \in graph.agents[2].connection_permissions

\* C16: the requester's only outbound edge goes to the role with the
\* maximum priority_level, the first such role of the list when several
\* share the maximum, and that role has an edge back to the requester.
C16_RequesterLinkedToTopRole ==
    graph.status = "built" =>
      \E i \in 1..Len(roles_arg) :
         /\ \A j \in 1..Len(roles_arg) : roles_arg[j].priority_level <= roles_arg[i].priority_level
         /\ \A j \in 1..(i - 1) : roles_arg[j].priority_level < roles_arg[i].priority_level
         /\ graph.agents[1].is_requester
         /\ graph.agents[1].connection_permissions = {roles_arg[i].name}
         /\ graph.agents[i + 1].agent_id = roles_arg[i].name
         /\ RequesterId \in graph.agents[i + 1].connection_permissions

\* C16 witness: two roles share the maximum priority_level and the
\* requester is linked with the first.
C16_Witness ==
    /\ graph.status = "built"
    /\ Len(roles_arg) = 2
    /\ roles_arg[1].priority_level = roles_arg[2].priority_level
    /\ graph.agents[1].connection_permissions = {roles_arg[1].name}
    /\ RequesterId \in graph.agents[2].connection_permissions
    /\ RequesterId \notin graph.agents[3].connection_permissions

\* a text of whitespace only
Blank(t) == \A j \in 1..Len(t) : t[j] = WS

\* t is s without its leading and trailing whitespace
IsTrimOf(t, s) ==
    \E a, b \in 1..Len(s) :
       /\ a <= b
       /\ t = SubSeq(s, a, b)
       /\ s[a] # WS /\ s[b] # WS
       /\ \A j \in (1..(a - 1)) \cup ((b + 1)..Len(s)) : s[j] = WS

\* the positions of the non-blank items of a list
NonBlankAt(items) == {i \in 1..Len(items) : ~Blank(items[i])}

\* C17 as claimed: non-blank text becomes a one-element list holding that
\* text, any other non-list value the empty list, and a list keeps its
\* non-blank items in order and drops the blank ones.
C17_CoercionKeepsText ==
    call.fn = "ensure_list" =>
      /\ (call.value.kind = "str" /\ ~Blank(call.value.s)) => call_result.list = <<call.value.s>>
      /\ (call.value.kind = "str" /\ Blank(call.value.s)) => call_result.list = <<>>
      /\ call.value.kind \notin {"str", "list"} => call_result.list = <<>>
      /\ call.value.kind = "list" =>
           /\ Len(call_result.list) = Cardinality(NonBlankAt(call.value.items))
           /\ \A k \in 1..Len(call_result.list) :
                \E i \in NonBlankAt(call.value.items) :
                   /\ Cardinality({j \in NonBlankAt(call.value.items) : j < i}) = k - 1
                   /\ call_result.list[k] = call.value.items[i]

\* C17 as amended: non-blank text becomes a one-element list holding that
\* text without its leading and trailing whitespace, any other non-list
\* value the empty list, and a list keeps its non-blank items in order,
\* each without its leading and trailing whitespace, and drops the blank
\* ones.
C17_CoercionStripsText ==
    call.fn = "ensure_list" =>
      /\ (call.value.kind = "str" /\ ~Blank(call.value.s)) =>
           /\ Len(call_result.list) = 1
           /\ IsTrimOf(call_result.list[1], call.value.s)
      /\ (call.value.kind = "str" /\ Blank(call.value.s)) => call_result.list = <<>>
      /\ call.value.kind \notin {"str", "list"} => call_result.list = <<>>
      /\ call.value.kind = "list" =>
           /\ Len(call_result.list) = Cardinality(NonBlankAt(call.value.items))
           /\ \A k \in 1..Len(call_result.list) :
                \E i \in NonBlankAt(call.value.items) :
                   /\ Cardinality({j \in NonBlankAt(call.value.items) : j < i}) = k - 1
                   /\ IsTrimOf(call_result.list[k], call.value.items[i])

\* C17 witness: a list of a blank item and a padded item was coerced to the
\* one item without its padding.
C17_Witness ==
    /\ call.fn = "ensure_list"
    /\ call.value = ListVal(<< <<WS>>, <<WS, "r">> >>)
    /\ call_result.list = << <<"r">> >>

\* C18: both decoders select the same text of a response, so one decodes
\* exactly when the other does.
C18_SameJsonText ==
    call.fn = "json_str" =>
      /\ call_result.roles_json_str = call_result.permissions_json_str
      /\ call_result.roles_json_str = RolesJsonStr(call.text)
      /\ \A body \in {EmptyObject, NonObject("number", {})} :
           JsonLoads(call_result.roles_json_str, body).ok
             <=> JsonLoads(call_result.permissions_json_str, body).ok

\* C18 witness: an unfenced object followed by prose; both decoders cut
\* the prose and select the object.
C18_Witness ==
    /\ call.fn = "json_str"
    /\ call.text = <<LBRACE, RBRACE, TXT>>
    /\ call_result.roles_json_str = <<LBRACE, RBRACE>>
    /\ call_result.permissions_json_str = <<LBRACE, RBRACE>>

\* a coerced field would hold an item
HasText(value) ==
    \/ value.kind = "list" /\ NonBlankAt(value.items) # {}
    \/ value.kind = "str" /\ ~Blank(value.s)

\* a candidate that is skipped because it misses a field or because
\* building its role raises
BadCandidate(c) ==
    \/ \E f \in {"name", "role_type", "responsibilities", "skills", "output_requirements"} :
          f \notin c.fields
    \/ c.kind # "dict"
    \/ "priority_level" \in c.fields /\ c.priority_level.kind # "int"

\* a candidate that passes validation on its own
ValidCandidate(c) ==
    /\ ~BadCandidate(c)
    /\ ~Blank(c.name) /\ ~Blank(c.role_type)
    /\ HasText(c.responsibilities) /\ HasText(c.skills)

NotBad(c) == ~BadCandidate(c)

\* the roles of a validated list
RolesOf(entries) == [k \in 1..Len(entries) |-> entries[k].role]

\* C19: validation failures are isolated per candidate.  A candidate that
\* misses a field or whose validation raises is skipped; every valid
\* candidate of the response survives validation whatever the others are;
\* the outcome is the one of the same response without the bad candidates,
\* so with max >= 1 the call returns as long as one candidate is valid,
\* and returns every valid candidate when they are at most max.
C19_FailuresAreIsolated ==
    (RolesAnswered /\ HasRolesArray) =>
      \A listed \in {Listed} : \A surv \in {ValidateLoop(listed, 1, <<>>)} :
        /\ Positions(surv) = {i \in 1..Len(listed) : ValidCandidate(listed[i])}
        /\ \A i \in 1..Len(listed) : BadCandidate(listed[i]) => i \notin Origins
        /\ \A clean \in {validate_generated_roles(RolesList(SelectSeq(listed, NotBad)), max_count).val} :
             /\ pc = "returned" <=> clean # <<>>
             /\ validated_roles = RolesOf(clean)
        /\ (max_count >= 1 /\ surv # <<>>) => pc = "returned"
        /\ (max_count >= 1 /\ Len(surv) <= max_count) => Origins = Positions(surv)

\* C19 witness: a candidate whose priority_level int() rejects came first,
\* a valid candidate behind it, and the call returned the valid one.
C19_Witness ==
    /\ RolesReturned /\ HasRolesArray
    /\ Len(Listed) >= 2
    /\ "priority_level" \in Listed[1].fields /\ Listed[1].priority_level.kind = "bad"
    /\ required_fields \subseteq Listed[1].fields
    /\ ValidCandidate(Listed[2])
    /\ Origins = {2}

\* C20: for max >= 1 a returned list has between 1 and max roles; when at
\* most max roles survive validation they are all returned in their
\* response order, so the order differs from the response order only when
\* the list was truncated.
C20_OrderKeptWithoutTruncation ==
    (RolesReturned /\ max_count >= 1) =>
      \A surv \in {ValidateLoop(Listed, 1, <<>>)} :
        /\ Len(validated_roles) \in 1..max_count
        /\ Len(surv) <= max_count =>
             /\ validated_roles = RolesOf(surv)
             /\ origin = [k \in 1..Len(surv) |-> surv[k].idx]
        /\ (\E k \in 1..(Len(origin) - 1) : origin[k] > origin[k + 1]) => Len(surv) > max_count
        /\ \A k \in 1..(Len(origin) - 1) :
             Len(surv) <= max_count => origin[k] < origin[k + 1]

\* C20 witness: two roles survived with max = 2, the lower priority first in
\* the response, and they were returned in that order.
C20_Witness ==
    /\ RolesReturned /\ max_count = 2
    /\ Len(validated_roles) = 2
    /\ origin = <<1, 2>>
    /\ validated_roles[1].priority_level < validated_roles[2].priority_level

\* the session was returned or failed
SessionOver == session.status \in {"completed", "failed"}

\* C13: a session never holds more RoundRecords than task.max_iterations,
\* whatever succeeds or fails and whatever the rounds decide.
C13_RoundsWithinMaxIterations ==
    /\ Len(session.rounds) <= session.max_iterations
    /\ \A i \in 1..Len(session.rounds) : session.rounds[i].round_number = i
    /\ \A i \in 1..(Len(session.rounds) - 1) : session.rounds[i].decision = "continue"
    /\ SessionOver =>
         /\ session.rounds # <<>>
         /\ session.rounds[Len(session.rounds)].decision = "terminate"

\* C13 witness: a returned session that used all its max_iterations = 2
\* rounds, an agent failing in the first.
C13_Witness ==
    /\ session.status = "completed"
    /\ session.max_iterations = 2
    /\ Len(session.rounds) = 2
    /\ Cardinality(session.rounds[1].actor_outputs) = 1

\* C14: the Pareto front recorded for a round holds no dominated candidate:
\* of any two outputs in it, neither is at least as good on critical,
\* novelty and satisfaction score and strictly better on one.
C14_FrontHasNoDominated ==
    \A i \in 1..Len(session.rounds) :
       /\ session.rounds[i].pareto_front \subseteq session.rounds[i].actor_outputs
       /\ \A o1, o2 \in session.rounds[i].pareto_front :
            ~(/\ o1.critical >= o2.critical
              /\ o1.novelty >= o2.novelty
              /\ o1.satisfaction >= o2.satisfaction
              /\ (\/ o1.critical > o2.critical
                  \/ o1.novelty > o2.novelty
                  \/ o1.satisfaction > o2.satisfaction))
       /\ session.rounds[i].actor_outputs # {} => session.rounds[i].pareto_front # {}

\* C14 witness: a round with two outputs, one dominating the other, and a
\* front of the dominating one alone.
C14_Witness ==
    \E i \in 1..Len(session.rounds) :
       /\ Cardinality(session.rounds[i].actor_outputs) = 2
       /\ Cardinality(session.rounds[i].pareto_front) = 1
       /\ \E o \in session.rounds[i].actor_outputs, p \in session.rounds[i].pareto_front :
            o.critical < p.critical /\ o.novelty < p.novelty

\* the outputs the agents produced in the session
Produced == UNION { session.rounds[i].actor_outputs : i \in 1..Len(session.rounds) }

\* C15: when every agent fails in every round the session ends with
\* RoundExecutionError and no final result; a returned session's
\* final_result always holds an output an agent produced.
C15_NoFabricatedResult ==
    /\ (SessionOver /\ Produced = {}) =>
         /\ session.status = "failed"
         /\ session.error = "RoundExecutionError"
         /\ ~session.final_result.selected
    /\ session.status = "completed" =>
         /\ session.final_result.selected
         /\ session.final_result.actor_output \in Produced
    /\ session.status = "failed" => (Produced = {} /\ session.final_result = NoFinalResult)

\* C15 witness: every agent failed and the session failed with
\* RoundExecutionError.
C15_Witness ==
    /\ session.status = "failed"
    /\ session.error = "RoundExecutionError"
    /\ session.rounds # <<>>
    /\ \A i \in 1..Len(session.rounds) : session.rounds[i].failed

\* the first n phases of the order
FirstPhases(n) == SubSeq(PhaseOrder, 1, n)

\* the run returned and no phase raised
ReturnedWithoutFailure == harness.status = "returned" /\ harness.test_data.errors = <<>>

\* C21: the phases that execute are always a prefix of the order setup,
\* task, agents, graph, response, self_game.  When no phase fails, a run
\* with max_phases = k, 1 <= k <= 5, executes exactly the first k phases
\* and returns termination_reason "phase_limit"; a run with max_phases
\* absent, <= 0 or >= 6 executes all six and returns "completed".  A phase
\* that needs the system executes only after setup has completed.
C21_PhasesArePrefixOfOrder ==
    /\ harness.executed = FirstPhases(Len(harness.executed))
    /\ harness.phases = FirstPhases(Len(harness.phases))
    /\ ReturnedWithoutFailure =>
         /\ harness.executed = harness.phases
         /\ harness.result.phases = harness.phases
         /\ IF harness.arg.given /\ harness.arg.value \in 1..5
            THEN /\ harness.phases = FirstPhases(harness.arg.value)
                 /\ harness.result.termination_reason = "phase_limit"
            ELSE /\ harness.phases = PhaseOrder
                 /\ harness.result.termination_reason = "completed"
    /\ \A i \in 1..Len(harness.executed) :
         harness.executed[i] \in NeedsSystem =>
           /\ i > 1
           /\ harness.phases # <<>>
           /\ harness.phases[1] = "setup"

\* C21 witness: max_phases = 3 ran setup, task and agents and stopped at
\* the gate.
C21_Witness ==
    /\ harness.status = "returned"
    /\ harness.arg = Limit(3)
    /\ harness.executed = <<"setup", "task", "agents">>
    /\ harness.result.success
    /\ harness.result.termination_reason = "phase_limit"

\* a phase raised: it was entered and its result was not appended
PhaseRaised == Len(harness.executed) > Len(harness.phases)

=============================================================================
